---- MODULE Spec2Model ----
(***************************************************************************)
(* Model of the Aurora long-running-query collector:                       *)
(*   lambda_function.py      get_secret, get_config, lambda_handler         *)
(*   postgres_collector.py   PostgresCollector                              *)
(*   metrics_client.py       DynatraceMetricsClient                         *)
(*   logs_client.py          DynatraceLogsClient                            *)
(*                                                                         *)
(* A Python str is a sequence of one-character strings, None is the empty  *)
(* option <<>> and a present value v is <<v>>, a dict is a function whose   *)
(* DOMAIN is its key set.  Every side effect on the outside world (reading  *)
(* the environment, a Secrets Manager call, a database connect / execute /  *)
(* close, an HTTP POST) is appended to the log io.                          *)
(***************************************************************************)
EXTENDS Integers, Sequences, FiniteSets, TLC

VARIABLES
    entry,      \* the operation the caller invoked
    pc,         \* position of the (single) thread of control
    env,        \* os.environ
    config,     \* lambda_handler: config
    secrets,    \* lambda_handler: db_password, dt_api_token
    start_time, \* lambda_handler: start_time
    queries,    \* lambda_handler: queries
    metrics,    \* lambda_handler: metrics / send_metrics: metrics
    log_entries,\* lambda_handler: log_entries / send_logs: log_entries
    batch_size, \* DynatraceLogsClient.batch_size
    i,          \* send_logs: loop index i
    total_sent, \* send_logs: total_sent
    errors,     \* send_logs: errors
    sub,        \* outcome of the last completed callee (collector or client)
    conn,       \* number of open database connections
    pending,    \* collector: return value or exception waiting for finally
    io,         \* the observable side effects, in order
    result      \* outcome of the invoked operation

vars == <<entry, pc, env, config, secrets, start_time, queries, metrics, log_entries,
          batch_size, i, total_sent, errors, sub, conn, pending, io, result>>

----------------------------------------------------------------------------
(* Bounds of the model.                                                    *)

MaxRows == 3        \* rows pg_stat_activity returns
MaxEntries == 3     \* entries handed to send_logs by a direct caller
MaxBatchSize == 2   \* batch_size of a directly constructed logs client
MaxLines == 2       \* lines handed to send_metrics by a direct caller
MaxTick == 1        \* wall-clock readings are 0 .. MaxTick

----------------------------------------------------------------------------
(* Python values.                                                          *)

None == <<>>
Some(v) == <<v>>

\* dict.get(key) and dict.get(key, default)
Get(d, k) == IF k \in DOMAIN d THEN Some(d[k]) ELSE None
GetOr(d, k, dflt) == IF k \in DOMAIN d THEN d[k] ELSE dflt

\* truthiness of an optional str: None and "" are falsy
Falsy(opt) == opt = None \/ opt = Some(<<>>)

Min(a, b) == IF a < b THEN a ELSE b

DigitChars == <<"0", "1", "2", "3", "4", "5", "6", "7", "8", "9">>
IsDigit(c) == \E d \in 1..10 : DigitChars[d] = c
DigitVal(c) == CHOOSE d \in 0..9 : DigitChars[d + 1] = c

\* str(n) for an int n >= 0
RECURSIVE Str(_)
Str(n) == IF n < 10 THEN <<DigitChars[n + 1]>>
          ELSE Str(n \div 10) \o <<DigitChars[(n % 10) + 1]>>

\* int(s) raises ValueError unless s is a decimal literal
IntParses(s) == s # <<>> /\ \A k \in 1..Len(s) : IsDigit(s[k])

RECURSIVE ParseInt(_)
ParseInt(s) == IF s = <<>> THEN 0
               ELSE ParseInt(SubSeq(s, 1, Len(s) - 1)) * 10 + DigitVal(s[Len(s)])

\* s.split(".")[0]
RECURSIVE SplitFirst(_)
SplitFirst(s) == IF s = <<>> \/ Head(s) = "." THEN <<>>
                 ELSE <<Head(s)>> \o SplitFirst(Tail(s))

\* exceptions: a type, the message text, and the values formatted into it
Exc(type, text, detail) == [type |-> type, text |-> text, detail |-> detail]

Ok(v) == [ok |-> TRUE, value |-> v]
Raised(e) == [ok |-> FALSE, exc |-> e]

EmptyDict == [k \in {} |-> 0]

\* a wall-clock reading (datetime.utcnow(), time.time()); the wall clock is
\* not monotonic, so a reading is any value of the range
Clock == 0..MaxTick

----------------------------------------------------------------------------
(* lambda_function.py: get_config                                          *)

RequiredKeys == <<"AURORA_HOST", "AURORA_DATABASE", "AURORA_USER",
                  "AURORA_PASSWORD_SECRET_ARN", "DT_ENVIRONMENT_URL",
                  "DT_API_TOKEN_SECRET_ARN">>

EnvKeys == {RequiredKeys[k] : k \in 1..Len(RequiredKeys)}
               \cup {"AURORA_PORT", "THRESHOLD_SECONDS"}

DefaultPort == <<"5", "4", "3", "2">>
DefaultThreshold == <<"6", "0">>

\* the value a key holds when it is set properly, and when it is set badly
\* (a required key set to "", a numeric key set to text that is no number)
GoodValue(k) ==
    CASE k = "AURORA_HOST" -> <<"d", "b", "1", ".", "r", "d", "s">>
      [] k = "AURORA_DATABASE" -> <<"o", "r", "d">>
      [] k = "AURORA_PORT" -> <<"5", "4", "3", "3">>
      [] k = "THRESHOLD_SECONDS" -> <<"9", "0">>
      [] OTHER -> <<"v">>

BadValue(k) == IF k \in {"AURORA_PORT", "THRESHOLD_SECONDS"} THEN <<"x">> ELSE <<>>

Envs == { [k \in {x \in EnvKeys : c[x] # "unset"} |->
              IF c[k] = "bad" THEN BadValue(k) ELSE GoodValue(k)] :
          c \in [EnvKeys -> {"unset", "bad", "good"}] }

\* the (name, value) pairs of `required`, as a lookup by name
RequiredValue(cfg, k) ==
    CASE k = "AURORA_HOST" -> cfg.aurora.host
      [] k = "AURORA_DATABASE" -> cfg.aurora.database
      [] k = "AURORA_USER" -> cfg.aurora.user
      [] k = "AURORA_PASSWORD_SECRET_ARN" -> cfg.aurora.password_secret_arn
      [] k = "DT_ENVIRONMENT_URL" -> cfg.dynatrace.environment_url
      [] k = "DT_API_TOKEN_SECRET_ARN" -> cfg.dynatrace.api_token_secret_arn

\* (mutation of Missing: `if value is None` in place of `if not value`)
MissingUnsetOnly(cfg) ==
    SelectSeq(RequiredKeys, LAMBDA k : RequiredValue(cfg, k) = None)

\* missing = [name for name, value in required if not value]
Missing(cfg) == SelectSeq(RequiredKeys, LAMBDA k : Falsy(RequiredValue(cfg, k)))

\* the config dict of lines 52-65, given that both int() calls succeed
ConfigDict(e) ==
    [aurora |-> [host |-> Get(e, "AURORA_HOST"),
                 port |-> ParseInt(GetOr(e, "AURORA_PORT", DefaultPort)),
                 database |-> Get(e, "AURORA_DATABASE"),
                 user |-> Get(e, "AURORA_USER"),
                 password_secret_arn |-> Get(e, "AURORA_PASSWORD_SECRET_ARN")],
     dynatrace |-> [environment_url |-> Get(e, "DT_ENVIRONMENT_URL"),
                    api_token_secret_arn |-> Get(e, "DT_API_TOKEN_SECRET_ARN")],
     threshold_seconds |-> ParseInt(GetOr(e, "THRESHOLD_SECONDS", DefaultThreshold))]

\* get_config(): the dict is built first (both int() calls run while it is
\* built, the port's before the threshold's), the required keys are checked after
get_config(e) ==
    IF ~IntParses(GetOr(e, "AURORA_PORT", DefaultPort))
        \/ ~IntParses(GetOr(e, "THRESHOLD_SECONDS", DefaultThreshold))
    THEN Raised(Exc("ValueError", "invalid literal for int() with base 10", <<>>))
    ELSE IF Missing(ConfigDict(e)) # <<>>
    THEN Raised(Exc("ValueError", "Missing required environment variables",
                    Missing(ConfigDict(e))))
    ELSE Ok(ConfigDict(e))

----------------------------------------------------------------------------
(* lambda_function.py: get_secret                                          *)

\* what Secrets Manager answers: the call fails, or a response without
\* SecretString, or a SecretString that is plain text, a JSON object (with or
\* without the fields password / apiToken) or JSON that is no object
SecretResponses ==
    { [kind |-> "ClientError", password |-> None, apiToken |-> None],
      [kind |-> "Binary", password |-> None, apiToken |-> None],
      [kind |-> "Text", password |-> None, apiToken |-> None],
      [kind |-> "JsonOther", password |-> None, apiToken |-> None] }
    \cup [kind : {"JsonObject"}, password : {None, Some(<<"p">>)},
          apiToken : {None, Some(<<"t">>)}]

RawSecret == <<"s">>

get_secret(r) ==
    CASE r.kind = "ClientError" -> Raised(Exc("ClientError", "get_secret_value", <<>>))
      [] r.kind = "Binary" ->
            Raised(Exc("ValueError", "Secret does not contain a string value", <<>>))
      [] r.kind = "Text" -> Ok(RawSecret)
      [] r.kind = "JsonOther" -> Raised(Exc("AttributeError", "no attribute get", <<>>))
      [] r.kind = "JsonObject" ->
            Ok(IF ~Falsy(r.password) THEN r.password[1]
               ELSE IF ~Falsy(r.apiToken) THEN r.apiToken[1]
               ELSE RawSecret)

----------------------------------------------------------------------------
(* collectors/postgres_collector.py                                        *)

\* the sessions pg_stat_activity can hold that pass the WHERE clause of
\* get_long_running_queries (state active, client backend, over the threshold)
Session(pid, user, wtype, wevent, dur, text) ==
    [pid |-> pid, usename |-> user, datname |-> <<"o", "r", "d">>,
     state |-> <<"a", "c", "t", "i", "v", "e">>,
     wait_event_type |-> wtype, wait_event |-> wevent,
     duration_seconds |-> dur, query |-> text]

SessionPool ==
    { Session(7, <<"a", "p", "p">>, None, None, 400, <<"S", "1">>),
      Session(12, <<"e", "t", "l">>, Some(<<"L", "o", "c", "k">>),
              Some(<<"t", "u", "p", "l", "e">>), 301, <<"S", "2">>),
      Session(105, <<"a", "p", "p">>, None, None, 300, <<"S", "3">>),
      Session(9, <<"b", "i">>, Some(<<"I", "O">>), Some(<<"r", "e", "a", "d">>),
              120, <<"S", "4">>),
      Session(31, <<"a", "p", "p">>, None, None, 120, <<"S", "5">>) }

\* ORDER BY duration_seconds DESC: what fetchall() can return, at most MaxRows
\* distinct sessions, longest first (sessions of equal duration in any order)
LongRunningResults ==
    { r \in UNION { [1..n -> SessionPool] : n \in 0..MaxRows } :
        /\ \A a, b \in DOMAIN r : a # b => r[a] # r[b]
        /\ \A a, b \in DOMAIN r :
               a < b => r[a].duration_seconds >= r[b].duration_seconds }

BlockedPair(bpid, dur, kpid) ==
    [blocked_pid |-> bpid, blocked_duration |-> dur, blocking_pid |-> kpid]

\* ORDER BY blocked_duration DESC
BlockedResults ==
    { <<>>, <<BlockedPair(12, 301, 7)>>,
      <<BlockedPair(12, 301, 7), BlockedPair(9, 120, 12)>> }

\* fetchone() of the pg_stat_statements aggregate: a row, or None
StatsRows == { None, Some([total_queries |-> 2, total_calls |-> 5]) }

\* the operation the collector is running
CollectorOp == IF entry = "lambda_handler" THEN "get_long_running_queries" ELSE entry

\* what cur.execute / fetch can do inside `with conn.cursor(...)`, as the
\* value the try block leaves for the code after `finally`
ExecOutcomes(op) ==
    CASE op = "get_long_running_queries" ->
            { Ok(r) : r \in LongRunningResults }
                \cup { Raised(Exc("psycopg2.Error", "query failed", <<>>)) }
      [] op = "get_blocked_queries" ->
            { Ok(r) : r \in BlockedResults }
                \cup { Raised(Exc("psycopg2.Error", "query failed", <<>>)) }
      [] op = "get_query_stats" ->
            { Ok(IF r = None THEN EmptyDict ELSE r[1]) : r \in StatsRows }
                \cup { Raised(Exc("UndefinedTable", "relation does not exist", <<>>)),
                       Raised(Exc("psycopg2.Error", "query failed", <<>>)) }

\* get_query_stats: except psycopg2.errors.UndefinedTable: return {}
AfterInnerExcept(op, out) ==
    IF op = "get_query_stats" /\ ~out.ok /\ out.exc.type = "UndefinedTable"
    THEN Ok(EmptyDict)
    ELSE out

\* (mutation of ClosesConnection: the UndefinedTable handler returns without
\* the finally clause)
ClosesConnectionButUndefinedTable(op, out) ==
    ~(op = "get_query_stats" /\ ~out.ok /\ out.exc.type = "UndefinedTable")

\* whether the code path that leaves the try block with `out` runs conn.close()
\* (the finally clause covers every path of all three query operations)
ClosesConnection(op, out) == TRUE

----------------------------------------------------------------------------
(* Control flow shared by the operations.                                  *)

\* a side effect on the outside world: the operation, its target, whether it
\* completed normally as the code saw it, what the outside world answered, and
\* what was sent
Event(op, what, ok, resp, data) ==
    [op |-> op, what |-> what, ok |-> ok, resp |-> resp, data |-> data]

\* (mutation of AfterPhase: the logs are sent before the metrics)
AfterPhaseLogsFirst(phase) ==
    CASE phase = "config" -> "h_secret_db"
      [] phase = "secret_db" -> "h_secret_dt"
      [] phase = "secret_dt" -> "h_construct"
      [] phase = "construct" -> "c_connect"
      [] phase = "collect" -> "h_derive"
      [] phase = "derive" -> "h_logs"
      [] phase = "logs" -> "m_start"
      [] phase = "metrics" -> "h_return"

\* the statement order of lambda_handler's try block: where control goes when a
\* phase has completed normally
AfterPhase(phase) ==
    CASE phase = "config" -> "h_secret_db"
      [] phase = "secret_db" -> "h_secret_dt"
      [] phase = "secret_dt" -> "h_construct"
      [] phase = "construct" -> "c_connect"
      [] phase = "collect" -> "h_derive"
      [] phase = "derive" -> "m_start"
      [] phase = "metrics" -> "h_logs"
      [] phase = "logs" -> "h_return"

\* (mutation of HandlerNext: a failed metrics send is swallowed)
HandlerNextMetricsSwallowed(r, phase) ==
    IF r.ok \/ phase = "metrics" THEN AfterPhase(phase) ELSE "h_except"

\* lambda_handler's `except Exception`: an exception raised by a phase of the
\* try block is caught there, a normal return goes on with the next statement
HandlerNext(r, phase) == IF r.ok THEN AfterPhase(phase) ELSE "h_except"

\* a callee (the collector or a client operation, called in `phase` of the
\* handler) ends with outcome r: inside lambda_handler control goes back to the
\* handler, otherwise r is what the direct caller observes
Finish(r, phase) ==
    /\ sub' = r
    /\ IF entry = "lambda_handler"
       THEN pc' = HandlerNext(r, phase) /\ result' = result
       ELSE pc' = "done" /\ result' = r

----------------------------------------------------------------------------
(* collectors/postgres_collector.py: the operations                        *)

\* conn = self._get_connection(): psycopg2.connect succeeds or raises
\* OperationalError, which `except psycopg2.Error` logs and re-raises
\* (test_connection: returns False)
OpenConnection ==
    /\ pc = "c_connect"
    /\ \E ok \in BOOLEAN :
        /\ io' = Append(io, Event("connect", CollectorOp, ok, ok, <<>>))
        /\ IF ok
           THEN /\ conn' = conn + 1
                /\ pc' = IF CollectorOp = "test_connection" THEN "c_close" ELSE "c_execute"
                /\ pending' = Ok(TRUE)
                /\ UNCHANGED <<sub, result>>
           ELSE /\ UNCHANGED <<conn, pending>>
                /\ IF CollectorOp = "test_connection"
                   THEN Finish(Ok(FALSE), "collect")
                   ELSE Finish(Raised(Exc("psycopg2.Error", "connect failed", <<>>)),
                               "collect")
    /\ UNCHANGED <<entry, env, config, secrets, start_time, queries, metrics,
                   log_entries, batch_size, i, total_sent, errors>>

\* with conn.cursor(...) as cur: cur.execute(query); fetch; return ...
ExecuteQuery ==
    /\ pc = "c_execute"
    /\ \E out \in ExecOutcomes(CollectorOp) :
        /\ io' = Append(io, Event("execute", CollectorOp, AfterInnerExcept(CollectorOp, out).ok, out, <<>>))
        /\ pending' = AfterInnerExcept(CollectorOp, out)
        /\ IF ClosesConnection(CollectorOp, out)
           THEN pc' = "c_close" /\ UNCHANGED <<sub, result>>
           ELSE Finish(AfterInnerExcept(CollectorOp, out), "collect")
    /\ UNCHANGED <<entry, env, config, secrets, start_time, queries, metrics,
                   log_entries, batch_size, i, total_sent, errors, conn>>

\* finally: conn.close() (test_connection: conn.close(); return True), then the
\* pending return value is returned, or the pending psycopg2.Error is logged and
\* re-raised by `except psycopg2.Error`
CloseConnection ==
    /\ pc = "c_close"
    /\ conn' = conn - 1
    /\ io' = Append(io, Event("close", CollectorOp, TRUE, TRUE, <<>>))
    /\ Finish(pending, "collect")
    /\ UNCHANGED <<entry, env, config, secrets, start_time, queries, metrics,
                   log_entries, batch_size, i, total_sent, errors, pending>>

----------------------------------------------------------------------------
(* dynatrace/metrics_client.py                                             *)

Resp(kind, status, body, obj) ==
    [kind |-> kind, status |-> status, body |-> body, obj |-> obj]

\* what requests.post can do for a payload of n lines: a transport error, or a
\* response with a status and a body (empty, a JSON object, or no JSON at all)
MetricsResponses(n) ==
    { Resp("transport", 0, "empty", EmptyDict) }
    \cup { Resp("response", st, "empty", EmptyDict) : st \in {202, 400, 503} }
    \cup { Resp("response", 202, "json",
                ("linesOk" :> (n - k)) @@ ("linesInvalid" :> k)) : k \in 0..1 }
    \cup { Resp("response", 202, "malformed", EmptyDict) }

\* response.raise_for_status() raises HTTPError for 4xx and 5xx
RaisesForStatus(status) == 400 <= status /\ status < 600

\* the try block of send_metrics on the response: both except clauses re-raise
MetricsOutcome(r) ==
    IF r.kind = "transport"
    THEN Raised(Exc("RequestException", "transport error", <<>>))
    ELSE IF RaisesForStatus(r.status)
    THEN Raised(Exc("HTTPError", "error status", <<>>))
    ELSE IF r.body = "empty" THEN Ok(EmptyDict)
    ELSE IF r.body = "json" THEN Ok(r.obj)
    ELSE Raised(Exc("JSONDecodeError", "body is not JSON", <<>>))

\* (mutation of MetricsPayloads: one request per line)
MetricsPayloadsPerLine(ms) == [k \in 1..Len(ms) |-> <<ms[k]>>]

\* the requests send_metrics issues for a list: payload = "\n".join(metrics),
\* one request carrying every line
MetricsPayloads(ms) == <<ms>>

\* send_metrics, empty list: if not metrics: return {"linesOk": 0, "linesInvalid": 0}
SendMetricsEmpty ==
    /\ pc = "m_start"
    /\ metrics = <<>>
    /\ Finish(Ok(("linesOk" :> 0) @@ ("linesInvalid" :> 0)), "metrics")
    /\ UNCHANGED <<entry, env, config, secrets, start_time, queries, metrics,
                   log_entries, batch_size, i, total_sent, errors, conn, pending, io>>

\* send_metrics, non-empty list: the POST and the handling of its response
SendMetricsPost ==
    /\ pc = "m_start"
    /\ metrics # <<>>
    /\ \E r \in MetricsResponses(Len(metrics)) :
        /\ io' = io \o [k \in 1..Len(MetricsPayloads(metrics)) |->
                           Event("post", "metrics", MetricsOutcome(r).ok, r,
                                 MetricsPayloads(metrics)[k])]
        /\ Finish(MetricsOutcome(r), "metrics")
    /\ UNCHANGED <<entry, env, config, secrets, start_time, queries, metrics,
                   log_entries, batch_size, i, total_sent, errors, conn, pending>>

----------------------------------------------------------------------------
(* dynatrace/logs_client.py                                                *)

DefaultBatchSize == 100

LogResponses ==
    { Resp("transport", 0, "empty", EmptyDict) }
    \cup { Resp("response", st, "empty", EmptyDict) : st \in {204, 503} }

\* batch = log_entries[i : i + self.batch_size]   (i counts from 0)
BatchAt(entries, k, size) == SubSeq(entries, k + 1, Min(k + size, Len(entries)))

\* (mutation of Stamp: the timestamp is assigned without the membership test)
StampOverwrite(e, t) == ("timestamp" :> t) @@ [k \in DOMAIN e \ {"timestamp"} |-> e[k]]

\* if "timestamp" not in entry: entry["timestamp"] = current_time_ms
Stamp(e, t) == IF "timestamp" \in DOMAIN e THEN e ELSE e @@ ("timestamp" :> t)

\* the try block of send_logs on one batch: requests.post raises a
\* RequestException on a transport error, raise_for_status an HTTPError on an
\* error status; None when the block runs to its end
LogBatchRaises(r) ==
    IF r.kind = "transport" THEN Some("RequestException")
    ELSE IF RaisesForStatus(r.status) THEN Some("HTTPError")
    ELSE None

\* (mutation of LogExceptCatches: only the HTTPError clause is there)
LogExceptCatchesHttpOnly(type) == type = "HTTPError"

\* except requests.exceptions.HTTPError / except requests.exceptions.RequestException
LogExceptCatches(type) == type \in {"HTTPError", "RequestException"}

\* error_msg of the except clause that catches the failure
LogErrorMsg(r) ==
    IF r.kind = "transport" THEN [text |-> "transport error", status |-> 0]
    ELSE [text |-> "HTTP", status |-> r.status]

\* (mutation of NextIndex: a failed batch ends the loop)
NextIndexAbortOnFailure(k, size, n, r) ==
    IF LogBatchRaises(r) = None THEN k + size ELSE n

\* the value of i for the next iteration of `for i in range(0, n, batch_size)`
\* after the batch at k ended with response r
NextIndex(k, size, n, r) == k + size

\* if not log_entries: return {"sent": 0}
SendLogsEmpty ==
    /\ pc = "l_start"
    /\ log_entries = <<>>
    /\ Finish(Ok("sent" :> 0), "logs")
    /\ UNCHANGED <<entry, env, config, secrets, start_time, queries, metrics,
                   log_entries, batch_size, i, total_sent, errors, conn, pending, io>>

\* total_sent = 0; errors = []; the loop starts at i = 0
SendLogsBegin ==
    /\ pc = "l_start"
    /\ log_entries # <<>>
    /\ total_sent' = 0
    /\ errors' = <<>>
    /\ i' = 0
    /\ pc' = "l_loop"
    /\ UNCHANGED <<entry, env, config, secrets, start_time, queries, metrics,
                   log_entries, batch_size, conn, pending, io, sub, result>>

\* one iteration of the loop: slice the batch, stamp its entries (the entries
\* are the caller's dicts, stamped in place), POST it, count it or record the error
SendLogBatch ==
    /\ pc = "l_loop"
    /\ i < Len(log_entries)
    /\ \E t \in Clock, r \in LogResponses :
        LET batch == BatchAt(log_entries, i, batch_size)
            stamped == [k \in 1..Len(batch) |-> Stamp(batch[k], t)]
            raised == LogBatchRaises(r)
        IN /\ log_entries' = [k \in 1..Len(log_entries) |->
                                 IF i < k /\ k <= i + Len(batch)
                                 THEN Stamp(log_entries[k], t) ELSE log_entries[k]]
           /\ io' = Append(io, Event("post", "logs", raised = None, r, stamped))
           /\ total_sent' = IF raised = None THEN total_sent + Len(batch) ELSE total_sent
           /\ IF raised = None \/ LogExceptCatches(raised[1])
              THEN /\ errors' = IF raised = None THEN errors
                                ELSE Append(errors, LogErrorMsg(r))
                   /\ i' = NextIndex(i, batch_size, Len(log_entries), r)
                   /\ UNCHANGED <<pc, sub, result>>
              ELSE /\ UNCHANGED <<errors, i>>
                   /\ Finish(Raised(Exc(raised[1], "log batch failed", <<>>)), "logs")
    /\ UNCHANGED <<entry, env, config, secrets, start_time, queries, metrics,
                   batch_size, conn, pending>>

\* result = {"sent": total_sent, "total": len(log_entries)}, plus "errors" if any
SendLogsResult(sent, total, errs) ==
    IF errs # <<>>
    THEN ("sent" :> sent) @@ ("total" :> total) @@ ("errors" :> errs)
    ELSE ("sent" :> sent) @@ ("total" :> total)

SendLogsReturn ==
    /\ pc = "l_loop"
    /\ i >= Len(log_entries)
    /\ Finish(Ok(SendLogsResult(total_sent, Len(log_entries), errors)), "logs")
    /\ UNCHANGED <<entry, env, config, secrets, start_time, queries, metrics,
                   log_entries, batch_size, i, total_sent, errors, conn, pending, io>>

----------------------------------------------------------------------------
(* lambda_function.py: lambda_handler                                      *)

SeverityLimit == 300
QueryMax == 10000

RECURSIVE SumDurations(_)
SumDurations(qs) ==
    IF qs = <<>> THEN 0 ELSE Head(qs).duration_seconds + SumDurations(Tail(qs))

RECURSIVE MaxDuration(_)
MaxDuration(qs) ==
    IF Len(qs) = 1 THEN Head(qs).duration_seconds
    ELSE LET m == MaxDuration(Tail(qs))
         IN IF Head(qs).duration_seconds > m THEN Head(qs).duration_seconds ELSE m

\* f"{num / den:.2f}" for ints num >= 0, den > 0: the quotient rounded to the
\* nearest hundredth.  A tie (num/den = x.xx5 exactly) needs den to be a multiple
\* of 8; it rounds to the even hundredth when the double holds the tie exactly.
Format2f(num, den) ==
    LET q == (100 * num) \div den
        r == (100 * num) % den
        h == IF 2 * r > den \/ (2 * r = den /\ q % 2 = 1) THEN q + 1 ELSE q
    IN Str(h \div 100) \o <<".">>
           \o <<DigitChars[((h % 100) \div 10) + 1], DigitChars[(h % 10) + 1]>>

\* f"{name},db.type=postgres,db.name={db_name},host={hostname} {value}"
MetricLine(name, db_name, hostname, value) ==
    [name |-> name, db_type |-> "postgres", db_name |-> db_name,
     host |-> hostname, value |-> value]

\* (mutation of DeriveMetrics: no line at all when no row was collected)
DeriveMetricsOmitZero(qs, db_name, hostname) ==
    IF Len(qs) > 0
    THEN << MetricLine("custom.db.long_queries.count", db_name, hostname, Str(Len(qs))),
            MetricLine("custom.db.long_queries.max_duration_seconds", db_name, hostname,
                       Str(MaxDuration(qs))),
            MetricLine("custom.db.long_queries.avg_duration_seconds", db_name, hostname,
                       Format2f(SumDurations(qs), Len(qs))),
            MetricLine("custom.db.long_queries.total_duration_seconds", db_name, hostname,
                       Str(SumDurations(qs))) >>
    ELSE <<>>

\* lines 140-157: the metric lines for the collected rows
DeriveMetrics(qs, db_name, hostname) ==
    IF Len(qs) > 0
    THEN << MetricLine("custom.db.long_queries.count", db_name, hostname, Str(Len(qs))),
            MetricLine("custom.db.long_queries.max_duration_seconds", db_name, hostname,
                       Str(MaxDuration(qs))),
            MetricLine("custom.db.long_queries.avg_duration_seconds", db_name, hostname,
                       Format2f(SumDurations(qs), Len(qs))),
            MetricLine("custom.db.long_queries.total_duration_seconds", db_name, hostname,
                       Str(SumDurations(qs))) >>
    ELSE << MetricLine("custom.db.long_queries.count", db_name, hostname, <<"0">>) >>

\* (mutation of Severity: >= in place of >)
SeverityInclusive(duration) == IF duration >= SeverityLimit THEN "ERROR" ELSE "WARN"

\* severity = "ERROR" if query["duration_seconds"] > 300 else "WARN"
Severity(duration) == IF duration > SeverityLimit THEN "ERROR" ELSE "WARN"

\* x or ""
OrEmpty(opt) == IF Falsy(opt) THEN <<>> ELSE opt[1]

\* lines 168-182: the log entry of one row
LogEntry(q, db_name, hostname) ==
    ("content" :> SubSeq(q.query, 1, Min(Len(q.query), QueryMax)))
    @@ ("log.source" :> "custom.db.long_running_query")
    @@ ("severity" :> Severity(q.duration_seconds))
    @@ ("db.type" :> "postgres")
    @@ ("db.name" :> db_name)
    @@ ("db.host" :> hostname)
    @@ ("query.pid" :> Str(q.pid))
    @@ ("query.duration_seconds" :> Str(q.duration_seconds))
    @@ ("query.state" :> q.state)
    @@ ("query.wait_event_type" :> OrEmpty(q.wait_event_type))
    @@ ("query.wait_event" :> OrEmpty(q.wait_event))
    @@ ("query.username" :> q.usename)
    @@ ("query.database" :> q.datname)

\* lines 165-183: one entry per row, in row order
DeriveLogEntries(qs, db_name, hostname) ==
    [k \in 1..Len(qs) |-> LogEntry(qs[k], db_name, hostname)]

\* start_time = datetime.utcnow()
HandlerStart ==
    /\ pc = "h_start"
    /\ start_time' \in Clock
    /\ pc' = "h_config"
    /\ UNCHANGED <<entry, env, config, secrets, queries, metrics, log_entries,
                   batch_size, i, total_sent, errors, sub, conn, pending, io, result>>

\* config = get_config()
HandlerConfig ==
    /\ pc = "h_config"
    /\ io' = Append(io, Event("env", "os.environ", get_config(env).ok, env, <<>>))
    /\ config' = IF get_config(env).ok THEN get_config(env).value ELSE config
    /\ sub' = get_config(env)
    /\ pc' = HandlerNext(get_config(env), "config")
    /\ UNCHANGED <<entry, env, secrets, start_time, queries, metrics, log_entries,
                   batch_size, i, total_sent, errors, conn, pending, result>>

\* db_password = get_secret(config["aurora"]["password_secret_arn"])
HandlerSecretDb ==
    /\ pc = "h_secret_db"
    /\ \E resp \in SecretResponses :
        /\ io' = Append(io, Event("secret", "password_secret_arn", get_secret(resp).ok,
                                  get_secret(resp).ok, config.aurora.password_secret_arn[1]))
        /\ secrets' = IF get_secret(resp).ok
                      THEN [secrets EXCEPT !.db_password = get_secret(resp).value]
                      ELSE secrets
        /\ sub' = get_secret(resp)
        /\ pc' = HandlerNext(get_secret(resp), "secret_db")
    /\ UNCHANGED <<entry, env, config, start_time, queries, metrics, log_entries,
                   batch_size, i, total_sent, errors, conn, pending, result>>

\* dt_api_token = get_secret(config["dynatrace"]["api_token_secret_arn"])
HandlerSecretDt ==
    /\ pc = "h_secret_dt"
    /\ \E resp \in SecretResponses :
        /\ io' = Append(io, Event("secret", "api_token_secret_arn", get_secret(resp).ok,
                                  get_secret(resp).ok, config.dynatrace.api_token_secret_arn[1]))
        /\ secrets' = IF get_secret(resp).ok
                      THEN [secrets EXCEPT !.dt_api_token = get_secret(resp).value]
                      ELSE secrets
        /\ sub' = get_secret(resp)
        /\ pc' = HandlerNext(get_secret(resp), "secret_dt")
    /\ UNCHANGED <<entry, env, config, start_time, queries, metrics, log_entries,
                   batch_size, i, total_sent, errors, conn, pending, result>>

\* the collector and the two clients are constructed (the logs client with the
\* default batch_size); queries = collector.get_long_running_queries() is called
HandlerConstruct ==
    /\ pc = "h_construct"
    /\ batch_size' = DefaultBatchSize
    /\ pc' = AfterPhase("construct")
    /\ UNCHANGED <<entry, env, config, secrets, start_time, queries, metrics,
                   log_entries, i, total_sent, errors, sub, conn, pending, io, result>>

\* queries = <the rows returned>; hostname, db_name; the metric lines are built
\* and metrics_client.send_metrics(metrics) is called
HandlerDerive ==
    /\ pc = "h_derive"
    /\ queries' = sub.value
    /\ metrics' = DeriveMetrics(sub.value, config.aurora.database[1],
                                SplitFirst(config.aurora.host[1]))
    /\ pc' = AfterPhase("derive")
    /\ UNCHANGED <<entry, env, config, secrets, start_time, log_entries, batch_size,
                   i, total_sent, errors, sub, conn, pending, io, result>>

\* if query_count > 0: the log entries are built and logs_client.send_logs is called
HandlerBuildLogs ==
    /\ pc = "h_logs"
    /\ IF Len(queries) > 0
       THEN /\ log_entries' = DeriveLogEntries(queries, config.aurora.database[1],
                                               SplitFirst(config.aurora.host[1]))
            /\ pc' = "l_start"
       ELSE /\ pc' = AfterPhase("logs")
            /\ UNCHANGED log_entries
    /\ UNCHANGED <<entry, env, config, secrets, start_time, queries, metrics,
                   batch_size, i, total_sent, errors, sub, conn, pending, io, result>>

\* (mutation of SuccessBody: logs_sent is what send_logs reported as sent)
SuccessBodySentCount(query_count, n_metrics, elapsed) ==
    [message |-> "Collection completed successfully",
     queries_found |-> query_count,
     metrics_sent |-> n_metrics,
     logs_sent |-> IF query_count > 0 THEN sub.value["sent"] ELSE 0,
     execution_time_ms |-> elapsed]

\* the body of the 200 response
SuccessBody(query_count, n_metrics, elapsed) ==
    [message |-> "Collection completed successfully",
     queries_found |-> query_count,
     metrics_sent |-> n_metrics,
     logs_sent |-> query_count,
     execution_time_ms |-> elapsed]

\* end_time = datetime.utcnow(); return {"statusCode": 200, ...}
HandlerReturn ==
    /\ pc = "h_return"
    /\ \E end_time \in Clock :
        result' = Ok([statusCode |-> 200,
                      body |-> SuccessBody(Len(queries), Len(metrics),
                                           end_time - start_time)])
    /\ pc' = "done"
    /\ UNCHANGED <<entry, env, config, secrets, start_time, queries, metrics,
                   log_entries, batch_size, i, total_sent, errors, sub, conn,
                   pending, io>>

\* except Exception as e: return {"statusCode": 500, "body": {"error": str(e)}}
HandlerExcept ==
    /\ pc = "h_except"
    /\ result' = Ok([statusCode |-> 500,
                     body |-> [error |-> [text |-> sub.exc.text,
                                          detail |-> sub.exc.detail]]])
    /\ pc' = "done"
    /\ UNCHANGED <<entry, env, config, secrets, start_time, queries, metrics,
                   log_entries, batch_size, i, total_sent, errors, sub, conn,
                   pending, io>>

----------------------------------------------------------------------------
(* The callers.                                                            *)

Entries == {"lambda_handler", "send_logs", "send_metrics",
            "get_long_running_queries", "get_blocked_queries",
            "get_query_stats", "test_connection"}

CollectorOps == {"get_long_running_queries", "get_blocked_queries",
                 "get_query_stats", "test_connection"}

\* what a direct caller hands to send_metrics and to send_logs
DirectLines == { MetricLine("custom.a", <<"o">>, <<"h">>, <<"1">>),
                 MetricLine("custom.b", <<"o">>, <<"h">>, <<"2">>) }

DirectMetrics == UNION { [1..n -> DirectLines] : n \in 0..MaxLines }

DirectEntryPool ==
    { ("content" :> <<"m">>) @@ ("severity" :> "INFO"),
      ("content" :> <<"m">>) @@ ("severity" :> "INFO") @@ ("timestamp" :> 7) }

DirectLogEntries == UNION { [1..n -> DirectEntryPool] : n \in 0..MaxEntries }

Init ==
    /\ entry \in Entries
    /\ pc = CASE entry = "lambda_handler" -> "h_start"
              [] entry = "send_logs" -> "l_start"
              [] entry = "send_metrics" -> "m_start"
              [] OTHER -> "c_connect"
    /\ env \in IF entry = "lambda_handler" THEN Envs ELSE {EmptyDict}
    /\ config = None
    /\ secrets = [db_password |-> None, dt_api_token |-> None]
    /\ start_time = 0
    /\ queries = <<>>
    /\ metrics \in IF entry = "send_metrics" THEN DirectMetrics ELSE {<<>>}
    /\ log_entries \in IF entry = "send_logs" THEN DirectLogEntries ELSE {<<>>}
    /\ batch_size \in IF entry = "send_logs" THEN 1..MaxBatchSize ELSE {0}
    /\ i = 0
    /\ total_sent = 0
    /\ errors = <<>>
    /\ sub = Ok(None)
    /\ conn = 0
    /\ pending = Ok(None)
    /\ io = <<>>
    /\ result = Ok(None)

Next ==
    \/ HandlerStart
    \/ HandlerConfig
    \/ HandlerSecretDb
    \/ HandlerSecretDt
    \/ HandlerConstruct
    \/ OpenConnection
    \/ ExecuteQuery
    \/ CloseConnection
    \/ HandlerDerive
    \/ SendMetricsEmpty
    \/ SendMetricsPost
    \/ HandlerBuildLogs
    \/ SendLogsEmpty
    \/ SendLogsBegin
    \/ SendLogBatch
    \/ SendLogsReturn
    \/ HandlerReturn
    \/ HandlerExcept

Spec == Init /\ [][Next]_vars

----------------------------------------------------------------------------
(* Properties.                                                             *)

LogPosts == SelectSeq(io, LAMBDA e : e.op = "post" /\ e.what = "logs")
MetricsPosts == SelectSeq(io, LAMBDA e : e.op = "post" /\ e.what = "metrics")

\* the request was answered with a 2xx status
Is2xx(r) == r.kind = "response" /\ r.status >= 200 /\ r.status < 300

CeilDiv(b, sz) == (b + sz - 1) \div sz

\* the entries of the requests that succeeded
RECURSIVE EntriesAccepted(_)
EntriesAccepted(posts) ==
    IF posts = <<>> THEN 0
    ELSE (IF Is2xx(Head(posts).resp) THEN Len(Head(posts).data) ELSE 0)
             + EntriesAccepted(Tail(posts))

FailedPosts(posts) == SelectSeq(posts, LAMBDA e : ~Is2xx(e.resp))

\* send_logs was called with a non-empty list and has ended; its outcome
LogsEnded ==
    \/ entry = "send_logs" /\ pc = "done" /\ log_entries # <<>>
    \/ entry = "lambda_handler" /\ pc \in {"h_return", "h_except"} /\ log_entries # <<>>
           /\ LogPosts # <<>>
LogsOutcome == IF entry = "send_logs" THEN result ELSE sub

FatalFailure(e) ==
    \/ e.op \in {"env", "secret", "connect", "execute"} /\ ~e.ok
    \/ e.op = "post" /\ e.what = "metrics" /\ (~Is2xx(e.resp) \/ ~e.ok)

CountOf(op, what) == Len(SelectSeq(io, LAMBDA e : e.op = op /\ e.what = what))

\* C2: in lambda_handler a failure of configuration loading, of a secret fetch,
\* of the database query or of the metrics send is the last thing the
\* invocation does (but for closing the database connection), no step is tried
\* twice, no log request follows a failed metrics send, and the invocation ends
\* by returning statusCode 500 with an error body; the handler never raises.
C2_FatalFailureEnds500 ==
    entry = "lambda_handler" =>
        /\ pc = "done" => result.ok /\ result.value.statusCode \in {200, 500}
        /\ \A k \in 1..Len(io) :
               FatalFailure(io[k]) =>
                   /\ \A j \in (k + 1)..Len(io) : io[j].op = "close"
                   /\ pc \in {"c_close", "h_except", "done"}
                   /\ pc = "done" =>
                          /\ result.value.statusCode = 500
                          /\ DOMAIN result.value.body = {"error"}
        /\ CountOf("env", "os.environ") <= 1
        /\ CountOf("secret", "password_secret_arn") <= 1
        /\ CountOf("secret", "api_token_secret_arn") <= 1
        /\ CountOf("connect", "get_long_running_queries") <= 1
        /\ CountOf("execute", "get_long_running_queries") <= 1
        /\ Len(MetricsPosts) <= 1
        /\ (MetricsPosts # <<>> /\ ~Is2xx(MetricsPosts[1].resp)) => LogPosts = <<>>

\* C2 witness: rows were collected, the metrics request got an error status,
\* and the invocation ended with 500 without a log request
C2_Witness ==
    /\ entry = "lambda_handler" /\ pc = "done"
    /\ queries # <<>>
    /\ MetricsPosts # <<>> /\ MetricsPosts[1].resp.kind = "response"
    /\ MetricsPosts[1].resp.status = 503
    /\ LogPosts = <<>>
    /\ result.value.statusCode = 500

MetricsEnded ==
    \/ entry = "send_metrics" /\ pc = "done" /\ metrics # <<>>
    \/ entry = "lambda_handler" /\ pc \in {"h_logs", "h_except"} /\ io # <<>>
           /\ io[Len(io)].op = "post" /\ io[Len(io)].what = "metrics"
MetricsSeen == IF entry = "send_metrics" THEN result ELSE sub

C5_PhaseOrder ==
    entry = "lambda_handler" =>
        /\ \A a, b \in 1..Len(io) :
               (a < b /\ io[a].op = "post") =>
                   /\ io[b].op = "post"
                   /\ io[a].what = "logs" => io[b].what = "logs"
        /\ MetricsPosts # <<>> =>
               \E a \in 1..Len(io) :
                   /\ io[a].op = "execute" /\ io[a].ok
                   /\ io[a + 1].op = "close"
                   /\ io[a + 2] = MetricsPosts[1]
                   /\ MetricsPosts[1].data =
                          DeriveMetrics(io[a].resp.value, config.aurora.database[1],
                                        SplitFirst(config.aurora.host[1]))
        /\ LogPosts # <<>> => MetricsPosts # <<>> /\ MetricsPosts[1].ok
        /\ pc \in {"h_derive", "m_start"} => CountOf("close", "get_long_running_queries") = 1
        /\ pc \in {"h_logs", "l_start", "l_loop"} => Len(MetricsPosts) = 1

\* C5 witness: a complete invocation: environment, two secrets, connect,
\* execute, close, the metrics request, the log request
C5_Witness ==
    /\ entry = "lambda_handler" /\ pc = "done"
    /\ result.value.statusCode = 200
    /\ [k \in 1..Len(io) |-> io[k].op] =
           <<"env", "secret", "secret", "connect", "execute", "close", "post", "post">>
    /\ io[7].what = "metrics" /\ io[8].what = "logs"

ConnectsOk == Len(SelectSeq(io, LAMBDA e : e.op = "connect" /\ e.ok))
Closes == Len(SelectSeq(io, LAMBDA e : e.op = "close"))

\* the optional-statistics query raised "relation does not exist"
UndefinedTableSeen ==
    \E k \in 1..Len(io) :
        io[k].op = "execute" /\ ~io[k].resp.ok /\ io[k].resp.exc.type = "UndefinedTable"

\* C6: at most one database connection is open at any time, and outside the
\* body of a collector operation (before it, after it returned or raised)
\* none is open: every connection that was opened has been closed.  The
\* "relation does not exist" path of get_query_stats returns the empty mapping
\* with the connection closed.
C6_ConnectionClosed ==
    /\ conn \in {0, 1}
    /\ conn = ConnectsOk - Closes
    /\ pc \notin {"c_execute", "c_close"} => conn = 0
    /\ (entry = "get_query_stats" /\ pc = "done" /\ UndefinedTableSeen) =>
           result = Ok(EmptyDict) /\ conn = 0 /\ Closes = 1

\* C6 witness: get_query_stats met "relation does not exist", closed its
\* connection and returned the empty mapping
C6_Witness ==
    /\ entry = "get_query_stats" /\ pc = "done"
    /\ UndefinedTableSeen
    /\ ConnectsOk = 1 /\ Closes = 1 /\ conn = 0
    /\ result = Ok(EmptyDict)

\* C7: send_metrics on an empty list and send_logs on an empty list issue no
\* request and return a zero-count result: {linesOk: 0, linesInvalid: 0} for
\* metrics, and for logs sent = 0 in the {sent, total} shape of the non-empty path.
C7_EmptyInputZeroResult ==
    /\ (entry = "send_metrics" /\ pc = "done" /\ metrics = <<>>) =>
           /\ io = <<>>
           /\ result = Ok(("linesOk" :> 0) @@ ("linesInvalid" :> 0))
    /\ (entry = "send_logs" /\ pc = "done" /\ log_entries = <<>>) =>
           /\ io = <<>>
           /\ result.ok
           /\ result.value["sent"] = 0
           /\ DOMAIN result.value = {"sent", "total"}

RequiredSet == {RequiredKeys[k] : k \in 1..Len(RequiredKeys)}

\* the required keys that are unset or set to the empty string
MissingKeys(e) == { k \in RequiredSet : k \notin DOMAIN e \/ e[k] = <<>> }

\* AURORA_PORT and THRESHOLD_SECONDS are unset or hold text int() accepts
NumbersParse(e) ==
    \A k \in {"AURORA_PORT", "THRESHOLD_SECONDS"} : k \in DOMAIN e => IntParses(e[k])

NamedInError == LET d == result.value.body.error.detail
                IN { d[k] : k \in 1..Len(d) }

\* C8 as stated: whenever some required key is unset or empty, lambda_handler
\* returns 500 with an error that names every missing key, and reads nothing
\* but the environment (no secret fetch, no database connection, no request).
C8_MissingKeysNamed ==
    (entry = "lambda_handler" /\ pc = "done" /\ MissingKeys(env) # {}) =>
        /\ result.ok /\ result.value.statusCode = 500
        /\ NamedInError = MissingKeys(env)
        /\ \A k \in 1..Len(io) : io[k].op = "env"

\* C8 as amended: whenever some required key is unset or empty, lambda_handler
\* returns 500 and reads nothing but the environment; when moreover AURORA_PORT
\* and THRESHOLD_SECONDS are unset or integers, the error names the missing
\* keys, all of them and only them, in the order of the required list.
C8_MissingKeysNamedIfNumbersParse ==
    (entry = "lambda_handler" /\ pc = "done" /\ MissingKeys(env) # {}) =>
        /\ result.ok /\ result.value.statusCode = 500
        /\ \A k \in 1..Len(io) : io[k].op = "env"
        /\ NumbersParse(env) =>
               /\ result.value.body.error.text = "Missing required environment variables"
               /\ result.value.body.error.detail =
                      SelectSeq(RequiredKeys, LAMBDA k : k \in MissingKeys(env))

\* C8 witness: AURORA_HOST is unset and DT_ENVIRONMENT_URL is empty, the port is
\* a number; the invocation ended with 500 naming both keys
C8_Witness ==
    /\ entry = "lambda_handler" /\ pc = "done"
    /\ MissingKeys(env) = {"AURORA_HOST", "DT_ENVIRONMENT_URL"}
    /\ "AURORA_HOST" \notin DOMAIN env /\ "DT_ENVIRONMENT_URL" \in DOMAIN env
    /\ "AURORA_PORT" \in DOMAIN env /\ NumbersParse(env)
    /\ result.value.statusCode = 500
    /\ result.value.body.error.detail = <<"AURORA_HOST", "DT_ENVIRONMENT_URL">>
    /\ Len(io) = 1

\* the value of a "d.dd" text in hundredths
Hundredths(t) ==
    ParseInt(SubSeq(t, 1, Len(t) - 3)) * 100 + ParseInt(SubSeq(t, Len(t) - 1, Len(t)))

TotalOf(rows) ==
    LET RECURSIVE upto(_)
        upto(k) == IF k = 0 THEN 0 ELSE upto(k - 1) + rows[k].duration_seconds
    IN upto(Len(rows))

Abs(x) == IF x < 0 THEN -x ELSE x

\* the metric lines have been derived in this invocation
MetricsDerived ==
    entry = "lambda_handler" /\ (pc = "m_start" \/ MetricsPosts # <<>>)

\* C9: for zero rows lambda_handler builds exactly one line, the count line
\* with value 0, and hands it to send_metrics; for N > 0 rows it builds four
\* lines, count = N, max = the largest duration, avg = total / N to the nearest
\* hundredth (two decimals), total = the sum of the durations.  Durations 400
\* and 120 give 2, 400, 260.00, 520.
C9_MetricDerivation ==
    MetricsDerived =>
        LET n == Len(queries)
            total == TotalOf(queries)
        IN /\ metrics # <<>>
           /\ \A k \in 1..Len(MetricsPosts) : MetricsPosts[k].data = metrics
           /\ n = 0 =>
                  /\ Len(metrics) = 1
                  /\ metrics[1].name = "custom.db.long_queries.count"
                  /\ metrics[1].value = <<"0">>
           /\ n > 0 =>
                  /\ [k \in 1..Len(metrics) |-> metrics[k].name] =
                         << "custom.db.long_queries.count",
                            "custom.db.long_queries.max_duration_seconds",
                            "custom.db.long_queries.avg_duration_seconds",
                            "custom.db.long_queries.total_duration_seconds" >>
                  /\ IntParses(metrics[1].value) /\ ParseInt(metrics[1].value) = n
                  /\ IntParses(metrics[2].value)
                  /\ \A k \in 1..n : queries[k].duration_seconds <= ParseInt(metrics[2].value)
                  /\ \E k \in 1..n : queries[k].duration_seconds = ParseInt(metrics[2].value)
                  /\ Len(metrics[3].value) >= 4
                  /\ metrics[3].value[Len(metrics[3].value) - 2] = "."
                  /\ 2 * Abs(Hundredths(metrics[3].value) * n - 100 * total) <= n
                  /\ IntParses(metrics[4].value) /\ ParseInt(metrics[4].value) = total
           /\ [k \in 1..n |-> queries[k].duration_seconds] = <<400, 120>> =>
                  [k \in 1..Len(metrics) |-> metrics[k].value] =
                      << <<"2">>, <<"4", "0", "0">>, <<"2", "6", "0", ".", "0", "0">>,
                         <<"5", "2", "0">> >>

\* C9 witness: the rows of durations 400 and 120 were collected and the four
\* lines went out with avg 260.00
C9_Witness ==
    /\ entry = "lambda_handler"
    /\ [k \in 1..Len(queries) |-> queries[k].duration_seconds] = <<400, 120>>
    /\ Len(MetricsPosts) = 1 /\ Len(MetricsPosts[1].data) = 4
    /\ MetricsPosts[1].data[3].value = <<"2", "6", "0", ".", "0", "0">>

\* C10: lambda_handler derives one log entry per collected row, in row order;
\* the entry's severity is ERROR when the row's duration_seconds exceeds 300 and
\* WARN otherwise (300 itself gives WARN), and the entry carries the row's pid,
\* duration, state, user and database.
C10_LogDerivation ==
    (entry = "lambda_handler" /\ pc \in {"l_start", "l_loop", "h_return", "done"}
         /\ (log_entries # <<>> \/ pc \in {"l_start", "l_loop"})) =>
        /\ Len(log_entries) = Len(queries)
        /\ \A k \in 1..Len(queries) :
               LET e == log_entries[k]
                   q == queries[k]
               IN /\ e["severity"] = IF q.duration_seconds > 300 THEN "ERROR" ELSE "WARN"
                  /\ IntParses(e["query.pid"]) /\ ParseInt(e["query.pid"]) = q.pid
                  /\ IntParses(e["query.duration_seconds"])
                  /\ ParseInt(e["query.duration_seconds"]) = q.duration_seconds
                  /\ e["query.state"] = q.state
                  /\ e["query.username"] = q.usename
                  /\ e["query.database"] = q.datname

\* C10 witness: rows of durations 301 and 300 were collected; their entries,
\* ERROR and WARN in that order, have been sent
C10_Witness ==
    /\ entry = "lambda_handler"
    /\ [k \in 1..Len(queries) |-> queries[k].duration_seconds] = <<301, 300>>
    /\ LogPosts # <<>>
    /\ [k \in 1..Len(LogPosts[1].data) |-> LogPosts[1].data[k]["severity"]]
           = <<"ERROR", "WARN">>
    /\ LogPosts[1].data[2]["query.pid"] = <<"1", "0", "5">>

HasTimestamp(e) == "timestamp" \in DOMAIN e

\* the fields of an entry other than its timestamp
WithoutTimestamp(e) == [k \in DOMAIN e \ {"timestamp"} |-> e[k]]

\* send_logs is running on a non-empty list
LogsRunning == pc \in {"l_start", "l_loop"}

\* one step of send_logs, seen from its caller's list: the list keeps its
\* length, an entry that has a timestamp is left as it is, an entry without one
\* changes in nothing but a timestamp; and when the step issues a request, every
\* entry of the payload has a timestamp, the payload is the batch as the
\* caller's list now holds it, and the entries of the batch that had none
\* before the step all hold one and the same value
C11_StampStep ==
    LogsRunning =>
        /\ Len(log_entries') = Len(log_entries)
        /\ \A k \in 1..Len(log_entries) :
               /\ HasTimestamp(log_entries[k]) => log_entries'[k] = log_entries[k]
               /\ WithoutTimestamp(log_entries'[k]) = WithoutTimestamp(log_entries[k])
        /\ Len(LogPosts') = Len(LogPosts) + 1 =>
               LET p == LogPosts'[Len(LogPosts')].data
                   off == Len(LogPosts) * batch_size
                   fresh == { k \in 1..Len(p) : ~HasTimestamp(log_entries[off + k]) }
               IN /\ p # <<>>
                  /\ \A k \in 1..Len(p) :
                         HasTimestamp(p[k]) /\ p[k] = log_entries'[off + k]
                  /\ \A a, b \in fresh : p[a]["timestamp"] = p[b]["timestamp"]

\* C11: in send_logs an entry that already has a timestamp keeps its value;
\* every entry without one has a timestamp when its batch is sent; the entries
\* stamped within one batch receive the identical value; and once send_logs
\* has ended every entry of the input has a timestamp, whether or not the
\* request of its batch succeeded.
C11_TimestampStamping ==
    /\ [][C11_StampStep]_vars
    /\ [](LogsEnded => \A k \in 1..Len(log_entries) : HasTimestamp(log_entries[k]))

\* C11 witness: of three entries in batches of two the first two had no
\* timestamp and the third had 7; the first request failed, the call has
\* returned, the first two entries share their stamp and the third still has 7
C11_Witness ==
    /\ entry = "send_logs" /\ pc = "done" /\ result.ok
    /\ batch_size = 2 /\ Len(log_entries) = 3 /\ Len(LogPosts) = 2
    /\ ~Is2xx(LogPosts[1].resp)
    /\ LogPosts[1].data[1]["timestamp"] = LogPosts[1].data[2]["timestamp"]
    /\ LogPosts[1].data[1]["timestamp"] \in Clock
    /\ log_entries[3]["timestamp"] = 7
    /\ \A k \in 1..3 : HasTimestamp(log_entries[k])

\* the rows the query of this invocation returned
RowsCollected ==
    LET done == SelectSeq(io, LAMBDA e : e.op = "execute" /\ e.ok)
    IN IF done = <<>> THEN <<>> ELSE done[1].resp.value

\* C12: in every 200 result of lambda_handler logs_sent equals queries_found,
\* the number of collected rows, however many log requests succeeded; the
\* outcome of send_logs changes neither the body nor the status code (an
\* invocation that got as far as a log request ends with 200).  With zero rows
\* send_logs is not called, no log request is made and logs_sent is 0.
C12_LogsSentIsQueryCount ==
    entry = "lambda_handler" =>
        /\ pc \in {"l_start", "l_loop"} => RowsCollected # <<>>
        /\ RowsCollected = <<>> => LogPosts = <<>>
        /\ (pc = "done" /\ LogPosts # <<>>) => result.ok /\ result.value.statusCode = 200
        /\ (pc = "done" /\ result.value.statusCode = 200) =>
               LET body == result.value.body
               IN /\ DOMAIN body = {"message", "queries_found", "metrics_sent",
                                    "logs_sent", "execution_time_ms"}
                  /\ body.queries_found = Len(RowsCollected)
                  /\ body.logs_sent = Len(RowsCollected)
                  /\ body.metrics_sent = Len(MetricsPosts[1].data)
                  /\ RowsCollected # <<>> => LogPosts # <<>>

\* C12 witness: two rows were collected, the only log request failed and
\* send_logs reported sent = 0 with an error, and the 200 body says logs_sent = 2
C12_Witness ==
    /\ entry = "lambda_handler" /\ pc = "done"
    /\ Len(RowsCollected) = 2
    /\ Len(LogPosts) = 1 /\ ~Is2xx(LogPosts[1].resp)
    /\ sub.ok /\ sub.value["sent"] = 0 /\ "errors" \in DOMAIN sub.value
    /\ result.value.statusCode = 200
    /\ result.value.body.logs_sent = 2 /\ result.value.body.queries_found = 2

====
